---- MODULE Spec2Model ----
\* Model of the two CameraStream classes of the repository.
\*
\* camera.py (the class main_qt5.py uses): the capture thread (loop), the
\* delay buffer with its eviction and selection, the published frame, the
\* delay setter, the ffmpeg recording session and release().
\* main.py (its own class): the capture thread (update), the buffer trimmed
\* to the delay, the VideoWriter recording and release().  Its state is the
\* record m and its definitions carry the prefix m_.
\*
\* A behaviour follows one of the two classes; impl says which.
\*
\* Spec runs either class with one capture and one control thread.  EncSpec
\* adds an encoder that may exit on its own, RestartSpec a start() after
\* release(), and FixedDelaySpec is main.py's class with set_delay never
\* called.  DoubleSpec lets start() be called on a running stream, LockSpec
\* makes every acquire and release of buf_lock and frame_lock a step,
\* TwoCtlSpec has two control threads calling start_recording and
\* stop_recording, SteadySpec is a started stream that never records, and
\* QtSpec adds the delay controls of main_qt5.py's window.
\*
\* Time is the value time.time() returns; only the capture thread reads it,
\* when cap.read() returns, so the clock advances in that step.  A frame is
\* identified by its capture number (1, 2, ...); None is 0.  Each `with`
\* block of the source that neither blocks nor calls out is one atomic step;
\* the process_lock section of loop() is split at the write, which blocks on
\* the encoder's pipe.
EXTENDS Integers, Sequences, FiniteSets

\* ---------------------------------------------------------------- bounds
\* delay_sec_max of the modelled stream (a constructor argument; 45 by default)
DelaySecMax == 2
\* the clock stops advancing at MaxTime
MaxTime == 3
\* number of frames cap.read() delivers
MaxFrames == 3
\* number of encoder processes start_recording may launch
MaxEnc == 2
\* number of control threads of the model (Spec runs the first only)
NumCtl == 2

None == 0
\* lastSet before any set_delay
Unset == 0 - 1

Ctl == 1..NumCtl
Encoders == 1..MaxEnc
\* arguments tried for set_delay: negative, in range, delay_sec_max and beyond
DelayArgs == (0 - 1)..(DelaySecMax + 1)
\* arguments tried for the constructor's delay_sec: the default, one second
\* and one beyond delay_sec_max
CtorDelays == {0, 1, DelaySecMax + 1}
\* delays tried for main.py's stream, which has no delay_sec_max
m_DelayArgs == 0..DelaySecMax
\* advances of the clock between two reads: none, a second, a whole horizon
Steps == {0, 1, DelaySecMax}

VARIABLES
    impl,           \* "camera": camera.py's class, "main": main.py's class
    buffer,         \* self.buffer: sequence of [t, f]
    delay_sec,      \* self.delay_sec
    frame,          \* self.frame (None or a frame)
    running,        \* self.running
    recording,      \* self.recording
    process,        \* self.process (None or an encoder)
    process_lock,   \* self.process_lock: "free", "loop" or "ctl"
    cap,            \* self.cap: "unset", "open", "closed" (failed to open), "released"
    capPc,          \* the capture thread's position in loop()
    timestamp,      \* loop()'s local timestamp
    curFrame,       \* loop()'s local frame
    delayed_frame,  \* loop()'s local delayed_frame
    now,            \* time.time()
    nframes,        \* frames delivered by cap.read() so far
    ctlPc,          \* each control thread's position
    lastRet,        \* each control thread's last start/stop_recording call that returned
    ctlErr,         \* a control call raised
    encOpen,        \* encoders whose stdin is open
    nenc,           \* encoders launched so far
    closes,         \* per encoder, how often its stdin was closed
    written,        \* frames written to the encoder launched last
    owed,           \* frames whose read returned while it was recording
    pushed,         \* every (timestamp, frame) appended to the buffer, in order
    lastSet,        \* the value stored by the last set_delay that returned
    second,         \* the thread a start() on a running stream spawns, a record:
                    \*   pc: its position in loop() ("none": not spawned)
                    \*   timestamp, cur, delayed: its locals timestamp, frame
                    \*     and delayed_frame
    w_delay_sec,    \* main_qt5.py: VideosWidget.delay_sec
    buf_lock,       \* self.buf_lock: "free", "loop" or "ctl" (a control thread)
    frame_lock,     \* self.frame_lock: "free", "loop" or "ctl"
    m               \* main.py's stream, a record:
                    \*   buffer, delay_sec, frame, delay_frame, running,
                    \*   recording, writer (None or a VideoWriter): self.<field>
                    \*   cap: self.cap, "open" or "released"
                    \*   pc, timestamp, cur: the capture thread's position in
                    \*     update() and its locals timestamp and frame
                    \*   ctlPc: the control (GUI) thread's position
                    \*   lastRet: its last start/stop_recording call
                    \*   open: VideoWriters not yet released; nwr: created so far
                    \*   closes: per VideoWriter, how often it was released
                    \*   written: [f, cur], frame written and frame captured

vars == <<buffer, delay_sec, frame, running, recording, process, process_lock,
          cap, capPc, timestamp, curFrame, delayed_frame, now, nframes,
          ctlPc, lastRet, ctlErr, encOpen, nenc, closes, written, owed, pushed,
          lastSet, second, w_delay_sec, buf_lock, frame_lock, impl, m>>

\* the fields and threads of main.py's class
mainVars == <<m>>

\* the fields and threads of camera.py's class
cameraVars == <<buffer, delay_sec, frame, running, recording, process,
                process_lock, cap, capPc, timestamp, curFrame, delayed_frame,
                ctlPc, lastRet, ctlErr, encOpen, nenc, closes, written, owed,
                pushed, lastSet, second, w_delay_sec, buf_lock, frame_lock>>

\* state that only the specifications beyond Spec change
lockVars == <<buf_lock, frame_lock>>
extVars == <<second, w_delay_sec, lockVars>>

streamVars == <<buffer, delay_sec, frame, running>>
recVars == <<recording, process, process_lock, encOpen, nenc, closes>>
capVars == <<cap, capPc, timestamp, curFrame, delayed_frame, now, nframes>>
ghostVars == <<written, owed, pushed, lastSet>>

Min(a, b) == IF a <= b THEN a ELSE b
Max(a, b) == IF a >= b THEN a ELSE b

\* ------------------------------------------------------- pure functions
\* the eviction with < in place of <=: an entry exactly delay_sec_max old is dropped
EvictStrict(buf, ts) == SelectSeq(buf, LAMBDA e : (ts - e.t) < DelaySecMax)

\* camera.py:48  the entries kept by the eviction filter
Evict(buf, ts) == SelectSeq(buf, LAMBDA e : (ts - e.t) <= DelaySecMax)

\* camera.py:48-49
Push(buf, ts, fr) == Append(Evict(buf, ts), [t |-> ts, f |-> fr])

\* the test of the scan with > in place of >=
OlderThan(age, d) == age > d

\* camera.py:53  the test of the scan
OldEnough(age, d) == age >= d

\* camera.py:51-56  the scan: keep overwriting while the age is >= d, stop at
\* the first entry that is too young
RECURSIVE Scan(_, _, _, _, _)
Scan(buf, i, ts, d, acc) ==
    IF i > Len(buf) THEN acc
    ELSE IF OldEnough(ts - buf[i].t, d) THEN Scan(buf, i + 1, ts, d, buf[i].f)
    ELSE acc

\* the scan leaving at its first hit: the oldest entry that is old enough
SelectOldest(buf, ts, d) ==
    IF Len(buf) > 0 /\ ts - buf[1].t >= d THEN buf[1].f ELSE None

\* the scan starting from the newest entry: the newest frame stands in when
\* no entry is old enough
SelectOrNewest(buf, ts, d) ==
    Scan(buf, 1, ts, d, IF buf = <<>> THEN None ELSE buf[Len(buf)].f)

\* camera.py:51-56  delayed_frame after the scan, None when it never assigned
Select(buf, ts, d) == Scan(buf, 1, ts, d, None)

\* camera.py:96
Clamp(v) == Min(Max(0, v), DelaySecMax - 1)

\* camera.py:90-92
get_frame == IF frame # None THEN frame ELSE None

\* --------------------------------------------------------------- Init
\* the state __init__ leaves (camera.py:8-26): delay_sec is stored as given
CameraInit(d) ==
    /\ buffer = <<>>
    /\ delay_sec = d
    /\ frame = None
    /\ running = TRUE
    /\ recording = FALSE
    /\ process = None
    /\ process_lock = "free"
    /\ cap = "unset"
    /\ capPc = "none"
    /\ timestamp = 0
    /\ curFrame = None
    /\ delayed_frame = None
    /\ ctlPc = [c \in Ctl |-> "idle"]
    /\ lastRet = [c \in Ctl |-> "none"]
    /\ ctlErr = FALSE
    /\ encOpen = {}
    /\ nenc = 0
    /\ closes = [e \in Encoders |-> 0]
    /\ written = {}
    /\ owed = {}
    /\ pushed = <<>>
    /\ lastSet = Unset
    /\ second = [pc |-> "none", timestamp |-> 0, cur |-> None, delayed |-> None]
    /\ w_delay_sec = 0
    /\ buf_lock = "free"
    /\ frame_lock = "free"

\* the state __init__ leaves (main.py:15-33): the capture is open and the
\* thread runs
MainInit(d, pc) ==
    m = [buffer |-> <<>>, delay_sec |-> d, frame |-> None, delay_frame |-> None,
         running |-> TRUE, recording |-> FALSE, writer |-> None, cap |-> "open",
         pc |-> pc, timestamp |-> 0, cur |-> None, ctlPc |-> "idle",
         lastRet |-> "none", open |-> {}, nwr |-> 0,
         closes |-> [e \in Encoders |-> 0], written |-> {}]

Init ==
    /\ now = 0
    /\ nframes = 0
    /\ \/ /\ impl = "camera"
          /\ \E d \in CtorDelays : CameraInit(d)
          /\ MainInit(0, "none")
       \/ /\ impl = "main"
          /\ \E d \in m_DelayArgs : MainInit(d, "loop")
          /\ CameraInit(0)

\* ------------------------------------------------------ capture thread
\* camera.py:29  what cv2.VideoCapture(index) may leave in self.cap: an
\* opened capture, or one that failed to open (the constructor does not raise)
OpenOutcomes == {"open", "closed"}

\* camera.py:28-38  start(), called in a state where `called` holds: create
\* the capture, opened or not, and spawn the thread; self.running is left as
\* it is
StartFrom(c, called) ==
    /\ impl = "camera"
    /\ UNCHANGED <<impl, mainVars, extVars>>
    /\ ctlPc[c] = "idle"
    /\ called
    /\ cap' \in OpenOutcomes
    /\ capPc' = "loop"
    /\ UNCHANGED <<streamVars, recVars, timestamp, curFrame, delayed_frame, now,
                   nframes, ctlPc, lastRet, ctlErr, ghostVars>>

\* camera.py:28-38  start() on a new stream
Start(c) == StartFrom(c, capPc = "none")

\* camera.py:28-38  start() on a stream that release() has left
Restart(c) == StartFrom(c, cap = "released")

\* camera.py:41  while self.running
LoopHead ==
    /\ impl = "camera"
    /\ UNCHANGED <<impl, mainVars, extVars>>
    /\ capPc = "loop"
    /\ capPc' = IF running THEN "read" ELSE "done"
    /\ UNCHANGED <<streamVars, recVars, cap, timestamp, curFrame, delayed_frame,
                   now, nframes, ctlPc, lastRet, ctlErr, ghostVars>>

\* a failed read that publishes the frame it did not get
ReadFailPublishes ==
    /\ impl = "camera"
    /\ UNCHANGED <<impl, mainVars, extVars>>
    /\ capPc = "read"
    /\ capPc' = "loop"
    /\ frame' = None
    /\ UNCHANGED <<buffer, delay_sec, running, recVars, cap, timestamp, curFrame,
                   delayed_frame, now, nframes, ctlPc, lastRet, ctlErr, ghostVars>>

\* camera.py:42-44  cap.read() returns no frame: continue
ReadFail ==
    /\ impl = "camera"
    /\ UNCHANGED <<impl, mainVars, extVars>>
    /\ capPc = "read"
    /\ capPc' = "loop"
    /\ UNCHANGED <<streamVars, recVars, cap, timestamp, curFrame, delayed_frame,
                   now, nframes, ctlPc, lastRet, ctlErr, ghostVars>>

\* camera.py:42-45  cap.read() returns a frame, which only an opened capture
\* does; it is stamped with time.time().  The source delivers n frames.
ReadOkWithin(n) ==
    /\ impl = "camera"
    /\ UNCHANGED <<impl, mainVars, extVars>>
    /\ capPc = "read"
    /\ cap = "open"
    /\ nframes < n
    /\ \E dt \in Steps :
        /\ now + dt <= MaxTime
        /\ now' = now + dt
        /\ timestamp' = now + dt
    /\ nframes' = nframes + 1
    /\ curFrame' = nframes + 1
    /\ owed' = IF recording THEN owed \cup {nframes + 1} ELSE owed
    /\ capPc' = "buf"
    /\ UNCHANGED <<streamVars, recVars, cap, delayed_frame, ctlPc, lastRet,
                   ctlErr, written, pushed, lastSet>>

\* camera.py:42-45  a successful read
ReadOk == ReadOkWithin(MaxFrames)

\* camera.py:8  the default of the constructor's delay_sec; as the delay of
\* a selection, it ignores every set_delay
DefaultDelay == 0

\* camera.py:53  the delay the scan compares with, read under buf_lock
DelayRead == delay_sec

\* camera.py:47-56  the buf_lock section: evict, append, select
BufStep ==
    /\ impl = "camera"
    /\ UNCHANGED <<impl, mainVars, extVars>>
    /\ capPc = "buf"
    /\ buffer' = Push(buffer, timestamp, curFrame)
    /\ delayed_frame' = Select(buffer', timestamp, DelayRead)
    /\ pushed' = Append(pushed, [t |-> timestamp, f |-> curFrame])
    /\ capPc' = "pub"
    /\ UNCHANGED <<delay_sec, frame, running, recVars, cap, timestamp, curFrame,
                   now, nframes, ctlPc, lastRet, ctlErr, written, owed, lastSet>>

\* camera.py:58-59  the frame_lock section: publish
Publish ==
    /\ impl = "camera"
    /\ UNCHANGED <<impl, mainVars, extVars>>
    /\ capPc = "pub"
    /\ frame' = delayed_frame
    /\ capPc' = "rec"
    /\ UNCHANGED <<buffer, delay_sec, running, recVars, cap, timestamp, curFrame,
                   delayed_frame, now, nframes, ctlPc, lastRet, ctlErr, ghostVars>>

\* camera.py:62  the condition under which the cycle writes
ShouldWrite == recording /\ process # None

\* camera.py:61-62  take process_lock and test the session
RecCheck ==
    /\ impl = "camera"
    /\ UNCHANGED <<impl, mainVars, extVars>>
    /\ capPc = "rec"
    /\ process_lock = "free"
    /\ IF ShouldWrite
       THEN /\ process_lock' = "loop"
            /\ capPc' = "write"
            /\ UNCHANGED <<timestamp, curFrame, delayed_frame>>
       ELSE /\ process_lock' = "free"
            /\ capPc' = "loop"
            /\ timestamp' = 0
            /\ curFrame' = None
            /\ delayed_frame' = None
    /\ UNCHANGED <<streamVars, recording, process, encOpen, nenc, closes, cap,
                   now, nframes, ctlPc, lastRet, ctlErr, ghostVars>>

\* camera.py:63  the frame handed to the encoder
FrameToWrite == delayed_frame

\* a with block that keeps its lock when an exception leaves it
LockKeptOnRaise == "loop"

\* camera.py:61  `with self.process_lock`: the lock is released when an
\* exception leaves the block
LockAfterRaise == "free"

\* camera.py:63  process.stdin.write(delayed_frame.astype(...).tobytes()):
\* None has no astype and a closed stdin rejects the write; either exception
\* leaves the with block (releasing the lock) and ends the thread
RecWrite ==
    /\ impl = "camera"
    /\ UNCHANGED <<impl, mainVars, extVars>>
    /\ capPc = "write"
    /\ process_lock = "loop"
    /\ IF FrameToWrite = None \/ process \notin encOpen
       THEN /\ capPc' = "dead"
            /\ process_lock' = LockAfterRaise
            /\ UNCHANGED written
       ELSE /\ capPc' = "loop"
            /\ process_lock' = "free"
            /\ written' = written \cup {FrameToWrite}
    /\ timestamp' = 0
    /\ curFrame' = None
    /\ delayed_frame' = None
    /\ UNCHANGED <<streamVars, recording, process, encOpen, nenc, closes, cap,
                   now, nframes, ctlPc, lastRet, ctlErr, owed, pushed, lastSet>>

\* ------------------------------------------------------ control threads
\* camera.py:94-96  set_delay under buf_lock
SetDelay(c) ==
    /\ impl = "camera"
    /\ UNCHANGED <<impl, mainVars, extVars>>
    /\ ctlPc[c] = "idle"
    /\ \E v \in DelayArgs :
        /\ delay_sec' = Clamp(v)
        /\ lastSet' = Clamp(v)
    /\ UNCHANGED <<buffer, frame, running, recVars, capVars, ctlPc, lastRet,
                   ctlErr, written, owed, pushed>>

\* start_recording without its guard
StartGuardOff == FALSE

\* camera.py:67  the guard of start_recording
StartGuard == recording

\* camera.py:66-68  start_recording: return at once when recording
StartCall(c) ==
    /\ impl = "camera"
    /\ UNCHANGED <<impl, mainVars, extVars>>
    /\ ctlPc[c] = "idle"
    /\ IF StartGuard
       THEN /\ lastRet' = [lastRet EXCEPT ![c] = "start_noop"]
            /\ UNCHANGED ctlPc
       ELSE /\ ctlPc' = [ctlPc EXCEPT ![c] = "start_open"]
            /\ UNCHANGED lastRet
    /\ UNCHANGED <<streamVars, recVars, capVars, ctlErr, ghostVars>>

\* camera.py:70-76  run_async launches the encoder and the handle is stored
StartOpen(c) ==
    /\ impl = "camera"
    /\ UNCHANGED <<impl, mainVars, extVars>>
    /\ ctlPc[c] = "start_open"
    /\ nenc < MaxEnc
    /\ nenc' = nenc + 1
    /\ process' = nenc + 1
    /\ encOpen' = encOpen \cup {nenc + 1}
    /\ written' = {}
    /\ owed' = {}
    /\ ctlPc' = [ctlPc EXCEPT ![c] = "start_flag"]
    /\ UNCHANGED <<streamVars, recording, process_lock, closes, capVars, lastRet,
                   ctlErr, pushed, lastSet>>

\* camera.py:70-76  run_async raises: start_recording unwinds, nothing stored
StartFail(c) ==
    /\ impl = "camera"
    /\ UNCHANGED <<impl, mainVars, extVars>>
    /\ ctlPc[c] = "start_open"
    /\ ctlPc' = [ctlPc EXCEPT ![c] = "idle"]
    /\ lastRet' = [lastRet EXCEPT ![c] = "start"]
    /\ UNCHANGED <<streamVars, recVars, capVars, ctlErr, ghostVars>>

\* camera.py:78
StartFlag(c) ==
    /\ impl = "camera"
    /\ UNCHANGED <<impl, mainVars, extVars>>
    /\ ctlPc[c] = "start_flag"
    /\ recording' = TRUE
    /\ ctlPc' = [ctlPc EXCEPT ![c] = "idle"]
    /\ lastRet' = [lastRet EXCEPT ![c] = "start"]
    /\ UNCHANGED <<streamVars, process, process_lock, encOpen, nenc, closes,
                   capVars, ctlErr, ghostVars>>

\* lastRet after a stop_recording: "stop_twice" when it found nothing to stop
\* right after another stop_recording, "stop" otherwise
StopRets == {"stop", "stop_twice"}

\* stop_recording without its guard
StopGuardOff == FALSE

\* camera.py:81  the guard of stop_recording
StopGuard == ~recording

\* camera.py:80-82  stop_recording: return at once when not recording
StopCall(c) ==
    /\ impl = "camera"
    /\ UNCHANGED <<impl, mainVars, extVars>>
    /\ ctlPc[c] = "idle"
    /\ IF StopGuard
       THEN /\ lastRet' = [lastRet EXCEPT ![c] =
                              IF @ \in StopRets THEN "stop_twice" ELSE "stop"]
            /\ UNCHANGED ctlPc
       ELSE /\ ctlPc' = [ctlPc EXCEPT ![c] = "stop_flag"]
            /\ UNCHANGED lastRet
    /\ UNCHANGED <<streamVars, recVars, capVars, ctlErr, ghostVars>>

\* camera.py:84
StopFlag(c) ==
    /\ impl = "camera"
    /\ UNCHANGED <<impl, mainVars, extVars>>
    /\ ctlPc[c] = "stop_flag"
    /\ recording' = FALSE
    /\ ctlPc' = [ctlPc EXCEPT ![c] = "stop_lock"]
    /\ UNCHANGED <<streamVars, process, process_lock, encOpen, nenc, closes,
                   capVars, lastRet, ctlErr, ghostVars>>

\* stop_recording closing the encoder without taking process_lock
StopEntersUnlocked == TRUE

\* camera.py:85  stop_recording may enter its with block
StopMayEnter == process_lock = "free"

\* camera.py:85-88  under process_lock: close stdin, wait, drop the handle;
\* with no handle, self.process.stdin raises (the lock is released on the way out)
StopClose(c) ==
    /\ impl = "camera"
    /\ UNCHANGED <<impl, mainVars, extVars>>
    /\ ctlPc[c] = "stop_lock"
    /\ StopMayEnter
    /\ IF process = None
       THEN /\ ctlErr' = TRUE
            /\ lastRet' = [lastRet EXCEPT ![c] = "stop"]
            /\ UNCHANGED <<process, encOpen, closes>>
       ELSE /\ encOpen' = encOpen \ {process}
            /\ closes' = [closes EXCEPT ![process] = @ + 1]
            /\ process' = None
            /\ lastRet' = [lastRet EXCEPT ![c] = "stop"]
            /\ UNCHANGED ctlErr
    /\ ctlPc' = [ctlPc EXCEPT ![c] = "idle"]
    /\ UNCHANGED <<streamVars, recording, process_lock, nenc, capVars, ghostVars>>

\* camera.py:98-99  release(): clear the flag, then join
ReleaseCall(c) ==
    /\ impl = "camera"
    /\ UNCHANGED <<impl, mainVars, extVars>>
    /\ ctlPc[c] = "idle"
    /\ capPc # "none"
    /\ running' = FALSE
    /\ ctlPc' = [ctlPc EXCEPT ![c] = "rel_join"]
    /\ UNCHANGED <<buffer, delay_sec, frame, recVars, capVars, lastRet, ctlErr,
                   ghostVars>>

\* a join that does not wait for the thread
JoinNoWait == TRUE

\* a join that gives up while the thread is blocked in cap.read()
JoinReturnsInRead == capPc \in {"done", "dead", "read"}

\* camera.py:100  thread.join() returns: the thread self.thread names (the
\* one spawned last) has returned from loop() or has raised
Joined ==
    IF second.pc = "none" THEN capPc \in {"done", "dead"}
    ELSE second.pc \in {"done", "dead"}

\* camera.py:100-101  join returns once the thread has ended; cap.release()
ReleaseJoin(c) ==
    /\ impl = "camera"
    /\ UNCHANGED <<impl, mainVars, extVars>>
    /\ ctlPc[c] = "rel_join"
    /\ Joined
    /\ cap' = "released"
    /\ ctlPc' = [ctlPc EXCEPT ![c] = "idle"]
    /\ UNCHANGED <<streamVars, recVars, capPc, timestamp, curFrame, delayed_frame,
                   now, nframes, lastRet, ctlErr, ghostVars>>

\* ------------------------------------------------- main.py's CameraStream
\* main.py:43-44  pop the front while it is older than the delay
RECURSIVE m_Trim(_, _, _)
m_Trim(buf, ts, d) ==
    IF buf # <<>> /\ (ts - buf[1].t) > d THEN m_Trim(Tail(buf), ts, d) ELSE buf

\* main.py:36  while self.running
m_LoopHead ==
    /\ impl = "main"
    /\ m.pc = "loop"
    /\ m' = [m EXCEPT !.pc = IF m.running THEN "read" ELSE "done"]
    /\ UNCHANGED <<impl, cameraVars, now, nframes>>

\* main.py:37-39  cap.read() returns no frame: continue
m_ReadFail ==
    /\ impl = "main"
    /\ m.pc = "read"
    /\ m' = [m EXCEPT !.pc = "loop"]
    /\ UNCHANGED <<impl, cameraVars, now, nframes>>

\* main.py:37-40  cap.read() returns a frame; it is stamped with time.time()
m_ReadOk ==
    /\ impl = "main"
    /\ m.pc = "read"
    /\ nframes < MaxFrames
    /\ \E dt \in Steps :
        /\ now + dt <= MaxTime
        /\ now' = now + dt
        /\ m' = [m EXCEPT !.pc = "lock", !.timestamp = now + dt,
                          !.cur = nframes + 1]
    /\ nframes' = nframes + 1
    /\ UNCHANGED <<impl, cameraVars>>

\* main.py:48  the condition under which the cycle writes
m_ShouldWrite == m.recording /\ m.writer # None

\* main.py:49  the frame handed to the writer
m_FrameToWrite == m.cur

\* main.py:42-44  the buffer after the append and the trim
m_Pushed == m_Trim(Append(m.buffer, [t |-> m.timestamp, f |-> m.cur]),
                   m.timestamp, m.delay_sec)

\* main.py:41-49  the section under self.lock: append, trim, publish, write
m_Update ==
    /\ impl = "main"
    /\ m.pc = "lock"
    /\ m' = [m EXCEPT
              !.buffer = m_Pushed,
              !.frame = m.cur,
              !.delay_frame = IF m_Pushed # <<>> THEN m_Pushed[1].f ELSE m.cur,
              !.written = IF m_ShouldWrite
                          THEN @ \cup {[f |-> m_FrameToWrite, cur |-> m.cur]}
                          ELSE @,
              !.pc = "loop",
              !.timestamp = 0,
              !.cur = None]
    /\ UNCHANGED <<impl, cameraVars, now, nframes>>

\* main.py:58-60
m_get_delay_frame == IF m.delay_frame # None THEN m.delay_frame ELSE None

\* main.py:62-64  set_delay under self.lock: the value is stored as given
m_SetDelay ==
    /\ impl = "main"
    /\ m.ctlPc = "idle"
    /\ \E v \in m_DelayArgs : m' = [m EXCEPT !.delay_sec = v]
    /\ UNCHANGED <<impl, cameraVars, now, nframes>>

\* main.py:66-71  start_recording: a new VideoWriter replaces self.writer
m_StartOpen ==
    /\ impl = "main"
    /\ m.ctlPc = "idle"
    /\ m.nwr < MaxEnc
    /\ m' = [m EXCEPT !.nwr = @ + 1, !.writer = m.nwr + 1,
                      !.open = @ \cup {m.nwr + 1}, !.written = {},
                      !.ctlPc = "start_flag"]
    /\ UNCHANGED <<impl, cameraVars, now, nframes>>

\* main.py:72
m_StartFlag ==
    /\ impl = "main"
    /\ m.ctlPc = "start_flag"
    /\ m' = [m EXCEPT !.recording = TRUE, !.ctlPc = "idle", !.lastRet = "start"]
    /\ UNCHANGED <<impl, cameraVars, now, nframes>>

\* main.py:74-75  stop_recording clears the flag whatever it was
m_StopFlag ==
    /\ impl = "main"
    /\ m.ctlPc = "idle"
    /\ m' = [m EXCEPT !.recording = FALSE, !.ctlPc = "stop_lock"]
    /\ UNCHANGED <<impl, cameraVars, now, nframes>>

\* main.py:77  the guard of the release
m_HasWriter == m.writer # None

\* main.py:76-79  under self.lock: release the writer if there is one
m_StopRelease ==
    /\ impl = "main"
    /\ m.ctlPc = "stop_lock"
    /\ m' = [m EXCEPT
              !.open = IF m_HasWriter THEN @ \ {m.writer} ELSE @,
              !.closes = IF m_HasWriter THEN [@ EXCEPT ![m.writer] = @ + 1] ELSE @,
              !.writer = IF m_HasWriter THEN None ELSE @,
              !.lastRet = IF @ \in {"stop", "stop_twice"} THEN "stop_twice"
                          ELSE "stop",
              !.ctlPc = "idle"]
    /\ UNCHANGED <<impl, cameraVars, now, nframes>>

\* main.py:81-83  release(): clear the flag, then join
m_ReleaseCall ==
    /\ impl = "main"
    /\ m.ctlPc = "idle"
    /\ m' = [m EXCEPT !.running = FALSE, !.ctlPc = "rel_join"]
    /\ UNCHANGED <<impl, cameraVars, now, nframes>>

\* main.py:83-84  join returns once the thread has ended; cap.release()
m_ReleaseJoin ==
    /\ impl = "main"
    /\ m.ctlPc = "rel_join"
    /\ m.pc = "done"
    /\ m' = [m EXCEPT !.cap = "released", !.ctlPc = "idle"]
    /\ UNCHANGED <<impl, cameraVars, now, nframes>>

MainNext ==
    \/ m_LoopHead
    \/ m_ReadFail
    \/ m_ReadOk
    \/ m_Update
    \/ m_SetDelay
    \/ m_StartOpen
    \/ m_StartFlag
    \/ m_StopFlag
    \/ m_StopRelease
    \/ m_ReleaseCall
    \/ m_ReleaseJoin

\* ------------------------------------------------------- specification
CapNext == LoopHead \/ ReadFail \/ ReadOk \/ BufStep \/ Publish \/ RecCheck \/ RecWrite

CtlNext(c) ==
    \/ Start(c)
    \/ SetDelay(c)
    \/ StartCall(c)
    \/ StartOpen(c)
    \/ StartFail(c)
    \/ StartFlag(c)
    \/ StopCall(c)
    \/ StopFlag(c)
    \/ StopClose(c)
    \/ ReleaseCall(c)
    \/ ReleaseJoin(c)

\* one capture thread and one control thread, of either class
Next == CapNext \/ CtlNext(1) \/ MainNext

Spec == Init /\ [][Next]_vars

\* ------------------------------------------- a recording that breaks
\* camera.py:70-76  the ffmpeg process launched by run_async exits on its own
\* (bad arguments, full disk, killed): the pipe to its stdin breaks while
\* self.process still names it
EncoderFails ==
    /\ impl = "camera"
    /\ UNCHANGED <<impl, mainVars, extVars>>
    /\ process # None
    /\ process \in encOpen
    /\ encOpen' = encOpen \ {process}
    /\ UNCHANGED <<streamVars, recording, process, process_lock, nenc, closes,
                   capVars, ctlPc, lastRet, ctlErr, ghostVars>>

\* camera.py's stream alone
EncInit == Init /\ impl = "camera"

\* the capture thread, a control thread and an encoder that may break
EncNext == CapNext \/ CtlNext(1) \/ EncoderFails

EncSpec == EncInit /\ [][EncNext]_vars

\* ------------------------------------------- a stream started again
\* camera.py's stream alone
RestartInit == Init /\ impl = "camera"

\* the capture thread and a control thread that may call start() again after
\* release()
RestartNext == CapNext \/ CtlNext(1) \/ Restart(1)

RestartSpec == RestartInit /\ [][RestartNext]_vars

\* ------------------------------------ main.py's stream, delay left alone
\* main.py's stream alone, with the delay its constructor was given
FixedDelayInit == Init /\ impl = "main"

\* main.py's stream on which set_delay is never called
FixedDelayNext ==
    \/ m_LoopHead
    \/ m_ReadFail
    \/ m_ReadOk
    \/ m_Update
    \/ m_StartOpen
    \/ m_StartFlag
    \/ m_StopFlag
    \/ m_StopRelease
    \/ m_ReleaseCall
    \/ m_ReleaseJoin

FixedDelaySpec == FixedDelayInit /\ [][FixedDelayNext]_vars

\* ------------------------------------------- a stream started twice
\* a thread at this position is running loop()
Alive(pc) == pc \notin {"none", "done", "dead"}

\* camera.py:28-38  start() on a stream whose thread is running: self.cap and
\* self.thread are overwritten by a new capture and a new thread; the first
\* thread goes on
DoubleStart(c) ==
    /\ impl = "camera"
    /\ ctlPc[c] = "idle"
    /\ Alive(capPc)
    /\ second.pc = "none"
    /\ cap' \in OpenOutcomes
    /\ second' = [second EXCEPT !.pc = "loop"]
    /\ UNCHANGED <<impl, mainVars, w_delay_sec, lockVars, streamVars, recVars, capPc,
                   timestamp, curFrame, delayed_frame, now, nframes, ctlPc,
                   lastRet, ctlErr, ghostVars>>

\* camera.py:41  while self.running, in the second thread
s_LoopHead ==
    /\ impl = "camera"
    /\ second.pc = "loop"
    /\ second' = [second EXCEPT !.pc = IF running THEN "read" ELSE "done"]
    /\ UNCHANGED <<impl, mainVars, w_delay_sec, lockVars, streamVars, recVars, capVars,
                   ctlPc, lastRet, ctlErr, ghostVars>>

\* camera.py:42-44  the second thread's read returns no frame
s_ReadFail ==
    /\ impl = "camera"
    /\ second.pc = "read"
    /\ second' = [second EXCEPT !.pc = "loop"]
    /\ UNCHANGED <<impl, mainVars, w_delay_sec, lockVars, streamVars, recVars, capVars,
                   ctlPc, lastRet, ctlErr, ghostVars>>

\* camera.py:42-45  the second thread's read returns a frame
s_ReadOk ==
    /\ impl = "camera"
    /\ second.pc = "read"
    /\ cap = "open"
    /\ nframes < MaxFrames
    /\ \E dt \in Steps :
        /\ now + dt <= MaxTime
        /\ now' = now + dt
        /\ second' = [second EXCEPT !.pc = "buf", !.timestamp = now + dt,
                                    !.cur = nframes + 1]
    /\ nframes' = nframes + 1
    /\ owed' = IF recording THEN owed \cup {nframes + 1} ELSE owed
    /\ UNCHANGED <<impl, mainVars, w_delay_sec, lockVars, streamVars, recVars, cap, capPc,
                   timestamp, curFrame, delayed_frame, ctlPc, lastRet, ctlErr,
                   written, pushed, lastSet>>

\* camera.py:47-56  the second thread's buf_lock section
s_BufStep ==
    /\ impl = "camera"
    /\ second.pc = "buf"
    /\ buffer' = Push(buffer, second.timestamp, second.cur)
    /\ second' = [second EXCEPT
                    !.pc = "pub",
                    !.delayed = Select(buffer', second.timestamp, DelayRead)]
    /\ pushed' = Append(pushed, [t |-> second.timestamp, f |-> second.cur])
    /\ UNCHANGED <<impl, mainVars, w_delay_sec, lockVars, delay_sec, frame, running,
                   recVars, capVars, ctlPc, lastRet, ctlErr, written, owed,
                   lastSet>>

\* camera.py:58-59  the second thread's frame_lock section
s_Publish ==
    /\ impl = "camera"
    /\ second.pc = "pub"
    /\ frame' = second.delayed
    /\ second' = [second EXCEPT !.pc = "rec"]
    /\ UNCHANGED <<impl, mainVars, w_delay_sec, lockVars, buffer, delay_sec, running,
                   recVars, capVars, ctlPc, lastRet, ctlErr, ghostVars>>

\* camera.py:61-63  the second thread's process_lock section, in one step
s_Rec ==
    /\ impl = "camera"
    /\ second.pc = "rec"
    /\ process_lock = "free"
    /\ IF ShouldWrite
       THEN IF second.delayed = None \/ process \notin encOpen
            THEN /\ second' = [second EXCEPT !.pc = "dead"]
                 /\ UNCHANGED written
            ELSE /\ second' = [pc |-> "loop", timestamp |-> 0, cur |-> None,
                               delayed |-> None]
                 /\ written' = written \cup {second.delayed}
       ELSE /\ second' = [pc |-> "loop", timestamp |-> 0, cur |-> None,
                          delayed |-> None]
            /\ UNCHANGED written
    /\ UNCHANGED <<impl, mainVars, w_delay_sec, lockVars, streamVars, recVars, capVars,
                   ctlPc, lastRet, ctlErr, owed, pushed, lastSet>>

\* the second thread's loop()
SecondNext ==
    s_LoopHead \/ s_ReadFail \/ s_ReadOk \/ s_BufStep \/ s_Publish \/ s_Rec

\* camera.py's stream alone
DoubleInit == Init /\ impl = "camera"

\* the capture threads and a control thread calling start(), release() and
\* start_recording()
DoubleNext ==
    \/ CapNext
    \/ SecondNext
    \/ Start(1)
    \/ DoubleStart(1)
    \/ ReleaseCall(1)
    \/ ReleaseJoin(1)
    \/ StartCall(1)
    \/ StartOpen(1)
    \/ StartFail(1)
    \/ StartFlag(1)

DoubleSpec == DoubleInit /\ [][DoubleNext]_vars

\* ------------------------------------------- the three locks, step by step
\* camera.py:47  loop() takes buf_lock
k_BufEnter ==
    /\ impl = "camera"
    /\ capPc = "buf"
    /\ buf_lock = "free"
    /\ buf_lock' = "loop"
    /\ capPc' = "buf_in"
    /\ UNCHANGED <<impl, mainVars, second, w_delay_sec, frame_lock, streamVars,
                   recVars, cap, timestamp, curFrame, delayed_frame, now, nframes,
                   ctlPc, lastRet, ctlErr, ghostVars>>

\* camera.py:48-56  evict, append, select, and leave the with block
k_BufLeave ==
    /\ impl = "camera"
    /\ capPc = "buf_in"
    /\ buffer' = Push(buffer, timestamp, curFrame)
    /\ delayed_frame' = Select(buffer', timestamp, DelayRead)
    /\ pushed' = Append(pushed, [t |-> timestamp, f |-> curFrame])
    /\ buf_lock' = "free"
    /\ capPc' = "pub"
    /\ UNCHANGED <<impl, mainVars, second, w_delay_sec, frame_lock, delay_sec,
                   frame, running, recVars, cap, timestamp, curFrame, now, nframes,
                   ctlPc, lastRet, ctlErr, written, owed, lastSet>>

\* camera.py:58  loop() takes frame_lock
k_PubEnter ==
    /\ impl = "camera"
    /\ capPc = "pub"
    /\ frame_lock = "free"
    /\ frame_lock' = "loop"
    /\ capPc' = "pub_in"
    /\ UNCHANGED <<impl, mainVars, second, w_delay_sec, buf_lock, streamVars,
                   recVars, cap, timestamp, curFrame, delayed_frame, now, nframes,
                   ctlPc, lastRet, ctlErr, ghostVars>>

\* camera.py:59  publish and leave the with block
k_PubLeave ==
    /\ impl = "camera"
    /\ capPc = "pub_in"
    /\ frame' = delayed_frame
    /\ frame_lock' = "free"
    /\ capPc' = "rec"
    /\ UNCHANGED <<impl, mainVars, second, w_delay_sec, buf_lock, buffer,
                   delay_sec, running, recVars, cap, timestamp, curFrame,
                   delayed_frame, now, nframes, ctlPc, lastRet, ctlErr, ghostVars>>

\* camera.py:95  set_delay takes buf_lock
k_SetEnter(c) ==
    /\ impl = "camera"
    /\ ctlPc[c] = "idle"
    /\ buf_lock = "free"
    /\ buf_lock' = "ctl"
    /\ ctlPc' = [ctlPc EXCEPT ![c] = "set_in"]
    /\ UNCHANGED <<impl, mainVars, second, w_delay_sec, frame_lock, streamVars,
                   recVars, capVars, lastRet, ctlErr, ghostVars>>

\* camera.py:96  store the clamped delay and leave the with block
k_SetLeave(c) ==
    /\ impl = "camera"
    /\ ctlPc[c] = "set_in"
    /\ \E v \in DelayArgs :
        /\ delay_sec' = Clamp(v)
        /\ lastSet' = Clamp(v)
    /\ buf_lock' = "free"
    /\ ctlPc' = [ctlPc EXCEPT ![c] = "idle"]
    /\ UNCHANGED <<impl, mainVars, second, w_delay_sec, frame_lock, buffer, frame,
                   running, recVars, capVars, lastRet, ctlErr, written, owed,
                   pushed>>

\* camera.py:91  get_frame takes frame_lock
k_GetEnter(c) ==
    /\ impl = "camera"
    /\ ctlPc[c] = "idle"
    /\ frame_lock = "free"
    /\ frame_lock' = "ctl"
    /\ ctlPc' = [ctlPc EXCEPT ![c] = "get_in"]
    /\ UNCHANGED <<impl, mainVars, second, w_delay_sec, buf_lock, streamVars,
                   recVars, capVars, lastRet, ctlErr, ghostVars>>

\* camera.py:92  return self.frame and leave the with block
k_GetLeave(c) ==
    /\ impl = "camera"
    /\ ctlPc[c] = "get_in"
    /\ frame_lock' = "free"
    /\ ctlPc' = [ctlPc EXCEPT ![c] = "idle"]
    /\ UNCHANGED <<impl, mainVars, second, w_delay_sec, buf_lock, streamVars,
                   recVars, capVars, lastRet, ctlErr, ghostVars>>

\* camera.py:85  stop_recording takes process_lock
k_StopEnter(c) ==
    /\ impl = "camera"
    /\ ctlPc[c] = "stop_lock"
    /\ process_lock = "free"
    /\ process_lock' = "ctl"
    /\ ctlPc' = [ctlPc EXCEPT ![c] = "stop_in"]
    /\ UNCHANGED <<impl, mainVars, extVars, streamVars, recording, process,
                   encOpen, nenc, closes, capVars, lastRet, ctlErr, ghostVars>>

\* camera.py:86-88  close stdin, wait, drop the handle (or raise on a None
\* handle) and leave the with block
k_StopLeave(c) ==
    /\ impl = "camera"
    /\ ctlPc[c] = "stop_in"
    /\ IF process = None
       THEN /\ ctlErr' = TRUE
            /\ UNCHANGED <<process, encOpen, closes>>
       ELSE /\ encOpen' = encOpen \ {process}
            /\ closes' = [closes EXCEPT ![process] = @ + 1]
            /\ process' = None
            /\ UNCHANGED ctlErr
    /\ lastRet' = [lastRet EXCEPT ![c] = "stop"]
    /\ process_lock' = "free"
    /\ ctlPc' = [ctlPc EXCEPT ![c] = "idle"]
    /\ UNCHANGED <<impl, mainVars, extVars, streamVars, recording, nenc, capVars,
                   ghostVars>>

\* camera.py's stream alone, constructed with the default delay
LockInit == Init /\ impl = "camera" /\ delay_sec = DefaultDelay

\* loop() with its lock operations as steps
LockCapNext ==
    \/ LoopHead
    \/ ReadFail
    \/ ReadOk
    \/ k_BufEnter
    \/ k_BufLeave
    \/ k_PubEnter
    \/ k_PubLeave
    \/ RecCheck
    \/ RecWrite

\* the capture thread and a control thread calling start, get_frame,
\* set_delay, start_recording, stop_recording and release
LockNext ==
    \/ LockCapNext
    \/ Start(1)
    \/ StartCall(1)
    \/ StartOpen(1)
    \/ StartFail(1)
    \/ StartFlag(1)
    \/ StopCall(1)
    \/ StopFlag(1)
    \/ k_StopEnter(1)
    \/ k_StopLeave(1)
    \/ ReleaseCall(1)
    \/ ReleaseJoin(1)
    \/ k_SetEnter(1)
    \/ k_SetLeave(1)
    \/ k_GetEnter(1)
    \/ k_GetLeave(1)

LockSpec == LockInit /\ [][LockNext]_vars

\* ------------------------------------------- two control threads
\* camera.py's stream alone, constructed with the default delay
TwoCtlInit == Init /\ impl = "camera" /\ delay_sec = DefaultDelay

\* start_recording and stop_recording called by control thread c
RecordingCalls(c) ==
    \/ StartCall(c)
    \/ StartOpen(c)
    \/ StartFail(c)
    \/ StartFlag(c)
    \/ StopCall(c)
    \/ StopFlag(c)
    \/ StopClose(c)

\* the capture thread, started by thread 1, and every control thread calling
\* start_recording and stop_recording
TwoCtlNext == CapNext \/ Start(1) \/ \E c \in Ctl : RecordingCalls(c)

TwoCtlSpec == TwoCtlInit /\ [][TwoCtlNext]_vars

\* ------------------------------------------- a steady capture
\* frames delivered in SteadySpec: enough for an eviction when they come one
\* time unit apart
MaxSteadyFrames == MaxFrames + 1

\* camera.py:42-45  a successful read
SteadyRead == ReadOkWithin(MaxSteadyFrames)

\* camera.py's stream alone
SteadyInit == Init /\ impl = "camera"

\* the capture thread of a stream that is started, never records and is not
\* released, and a control thread calling set_delay
SteadyNext ==
    \/ Start(1)
    \/ SetDelay(1)
    \/ LoopHead
    \/ ReadFail
    \/ SteadyRead
    \/ BufStep
    \/ Publish
    \/ RecCheck

SteadySpec == SteadyInit /\ [][SteadyNext]_vars

\* ------------------------------------------- main_qt5.py's delay controls
\* main_qt5.py:306  the delay slider's range ends inside the range set_delay
\* keeps (40 against delay_sec_max = 45)
SliderMax == DelaySecMax - 1

\* main_qt5.py:145-148, 185-186  VideosWidget.update_delay: the widget keeps
\* the value clamped to [0, delay_sec_max] and passes it to set_delay of the
\* stream (camera.py:94-96), which clamps to [0, delay_sec_max - 1]
update_delay(v) ==
    /\ impl = "camera"
    /\ w_delay_sec' = Min(Max(0, v), DelaySecMax)
    /\ delay_sec' = Clamp(w_delay_sec')
    /\ lastSet' = Clamp(w_delay_sec')
    /\ UNCHANGED <<impl, mainVars, second, lockVars, buffer, frame, running,
                   recVars, capVars, ctlPc, lastRet, ctlErr, written, owed,
                   pushed>>

\* main_qt5.py:49-50  key '1'
KeyPress1 == update_delay(w_delay_sec - 1)

\* main_qt5.py:52-53  key '2'
KeyPress2 == update_delay(w_delay_sec + 1)

\* main_qt5.py:308, 402-404  the delay slider moved
SliderChanged == \E v \in 0..SliderMax : update_delay(v)

\* main_qt5.py:58  the delay the status bar shows
StatusBarDelay == w_delay_sec

\* main_qt5.py:77, 159  VideosWidget starts at 0 and VideoWidget builds its
\* stream with the default delay
QtInit == Init /\ impl = "camera" /\ delay_sec = DefaultDelay

\* the stream VideoWidget starts (main_qt5.py:160), its capture thread, and
\* the key presses and slider moves of the window
QtNext ==
    \/ Start(1)
    \/ LoopHead
    \/ ReadFail
    \/ ReadOk
    \/ BufStep
    \/ Publish
    \/ RecCheck
    \/ KeyPress1
    \/ KeyPress2
    \/ SliderChanged

QtSpec == QtInit /\ [][QtNext]_vars

\* ------------------------------------------------------------- claims
Last(s) == s[Len(s)]

StrictlyIncreasing(buf) == \A i \in 1..(Len(buf) - 1) : buf[i].t < buf[i + 1].t

\* the indices of buf whose age, relative to the newest entry, is at least d
Qualifying(buf, d) == {i \in 1..Len(buf) : Last(buf).t - buf[i].t >= d}

\* C1: while running is true the capture thread never ends on an error,
\* whatever the buffer, the delay and the recording state are.
C1_CaptureThreadNeverDies == capPc # "dead"

\* C2: once a capture has succeeded, the delayed frame a cycle is about to
\* publish is never None (the newest entry stands in when no entry is old enough).
C2_PublishedNeverNone == (capPc = "pub" /\ buffer # <<>>) => delayed_frame # None

\* the selection step of a cycle (buffer' is the buffer it scans, timestamp
\* the newest entry's stamp, delay_sec the delay it reads under buf_lock)
C3_SelectStep ==
    (/\ capPc = "buf"
     /\ capPc' = "pub"
     /\ StrictlyIncreasing(buffer')
     /\ Qualifying(buffer', delay_sec) # {})
    => /\ \E i \in Qualifying(buffer', delay_sec) :
            /\ delayed_frame' = buffer'[i].f
            /\ \A j \in Qualifying(buffer', delay_sec) : buffer'[j].t <= buffer'[i].t
       /\ (delay_sec = 0 => delayed_frame' = Last(buffer').f)

\* C3: the selection step of a cycle, on a buffer with strictly increasing
\* timestamps in which some entry is at least delay_sec old, yields the entry
\* with the largest timestamp among those at least delay_sec old; for a delay
\* of 0 that is the newest entry.
C3_SelectsNewestOldEnough == [][C3_SelectStep]_vars

\* C3 witness: a selection has picked an entry that is neither the oldest nor
\* the newest of a strictly increasing buffer.
C3_Witness ==
    /\ capPc = "pub"
    /\ Len(buffer) = 3
    /\ StrictlyIncreasing(buffer)
    /\ delayed_frame = buffer[2].f

\* C4: after each cycle the buffer is exactly the suffix of the captured
\* frames whose age relative to the newest timestamp is <= delay_sec_max.
C4_BufferIsAgeWindow ==
    pushed # <<>> =>
        /\ buffer = SelectSeq(pushed, LAMBDA e : Last(pushed).t - e.t <= DelaySecMax)
        /\ \E k \in 1..Len(pushed) : buffer = SubSeq(pushed, k, Len(pushed))

\* C4 witness: an entry exactly delay_sec_max old is retained while an older
\* one has been evicted.
C4_Witness ==
    /\ Len(buffer) >= 2
    /\ Len(pushed) > Len(buffer)
    /\ Last(buffer).t - buffer[1].t = DelaySecMax

\* camera.py: the frame about to be written is the frame of this cycle
C5_CameraWritesCaptured ==
    (capPc = "write" /\ FrameToWrite # None /\ process \in encOpen)
    => FrameToWrite = curFrame

\* main.py: every frame written was the frame of its cycle
C5_MainWritesCaptured == \A w \in m.written : w.f = w.cur

\* C5: the frame a cycle forwards to the recording sink is the frame captured
\* in that cycle, never the delayed one.
C5_RecordsRealTimeFrame == C5_CameraWritesCaptured /\ C5_MainWritesCaptured

\* C6: when stop_recording has closed the encoder and returned, every frame
\* whose read returned while recording was true has been written to it.
C6_NoFrameLostWhileRecording ==
    (lastRet[1] \in StopRets /\ ctlPc[1] = "idle") => owed \subseteq written

\* the last start/stop_recording call of control thread 1 was a
\* stop_recording that has returned, and no start_recording is under way
AfterStop ==
    /\ lastRet[1] \in StopRets
    /\ ctlPc[1] \notin {"start_open", "start_flag", "stop_flag", "stop_lock"}

\* C7: the capture thread is at its write only with an encoder whose stdin is
\* open, and never between the return of stop_recording and the next
\* start_recording.
C7_WriteOnlyWhileActive ==
    capPc = "write" => (process # None /\ process \in encOpen /\ ~AfterStop)

\* C7 witness: the write is in flight while stop_recording, having cleared
\* the flag, waits for process_lock.
C7_Witness == capPc = "write" /\ ctlPc[1] = "stop_lock" /\ ~recording

\* C8: at most one encoder is open, and it is the one the handle names.
C8_AtMostOneEncoder ==
    /\ Cardinality(encOpen) <= 1
    /\ encOpen # {} => encOpen = {process}

\* C8 witness: start_recording was called while a session was active and
\* returned; the session's encoder is still the only one.
C8_Witness ==
    /\ lastRet[1] = "start_noop"
    /\ recording
    /\ nenc = 1
    /\ encOpen = {1}
    /\ process = 1

\* a step in which control thread 1 calls stop_recording
StopCallStep ==
    /\ ctlPc[1] = "idle"
    /\ \/ ctlPc'[1] = "stop_flag"
       \/ (lastRet'[1] # lastRet[1] /\ lastRet'[1] \in StopRets)

\* the call returned at once and left the recording state alone
StopIsNoOp ==
    /\ ctlPc'[1] = "idle"
    /\ UNCHANGED <<recording, process, process_lock, encOpen, closes, ctlErr>>

C9_Step ==
    (StopCallStep /\ (lastRet[1] \in StopRets \/ nenc = 0)) => StopIsNoOp

C9_State ==
    /\ \A e \in Encoders : closes[e] <= 1
    /\ ~ctlErr
    /\ (lastRet[1] \in StopRets /\ ctlPc[1] = "idle") => (~recording /\ process = None)

\* a step of main.py's stop_recording
m_StopStep ==
    \/ m.ctlPc = "idle" /\ m'.ctlPc = "stop_lock"
    \/ m.ctlPc = "stop_lock" /\ m'.ctlPc = "idle"

MainStopRets == {"stop", "stop_twice"}

C9_MainStep ==
    (m_StopStep /\ (m.lastRet \in MainStopRets \/ m.nwr = 0))
    => (/\ m'.recording = m.recording
        /\ m'.writer = m.writer
        /\ m'.open = m.open
        /\ m'.closes = m.closes)

C9_MainState ==
    /\ \A e \in Encoders : m.closes[e] <= 1
    /\ (m.lastRet \in MainStopRets /\ m.ctlPc = "idle")
       => (~m.recording /\ m.writer = None)

\* C9: stop_recording right after a stop_recording, or on a stream that never
\* started recording, changes nothing (in camera.py it returns at once); no
\* encoder or writer is closed twice and no call raises.
C9_StopIdempotent ==
    /\ []C9_State
    /\ [][C9_Step]_vars
    /\ []C9_MainState
    /\ [][C9_MainStep]_vars

\* C9 witness: stop_recording has returned twice in a row after a session
\* that was really stopped.
C9_Witness == lastRet[1] = "stop_twice" /\ closes[1] = 1 /\ ctlPc[1] = "idle"

\* C10: when release() releases the capture, the recording session is
\* stopped: recording is false and no encoder or writer is open.
C10_ReleaseStopsRecording ==
    /\ [][(cap # "released" /\ cap' = "released")
          => (~recording' /\ process' = None /\ encOpen' = {})]_vars
    /\ [][(m.cap # "released" /\ m'.cap = "released")
          => (~m'.recording /\ m'.writer = None)]_vars

\* C10 for each class alone
C10_CameraReleaseStops ==
    [][(cap # "released" /\ cap' = "released")
        => (~recording' /\ process' = None /\ encOpen' = {})]_vars

C10_MainReleaseStops ==
    [][(m.cap # "released" /\ m'.cap = "released")
        => (~m'.recording /\ m'.writer = None)]_vars

\* C11: once release() has returned (the capture is released), no step
\* changes the published frame or the buffer.
C11_NoWriteAfterRelease ==
    [][cap = "released" => (frame' = frame /\ buffer' = buffer)]_vars

\* C11 witness: release() has returned on a stream whose thread had buffered
\* and published frames, and fewer frames were read than the source offers.
C11_Witness ==
    /\ cap = "released"
    /\ ctlPc[1] = "idle"
    /\ frame # None
    /\ buffer # <<>>
    /\ nframes < MaxFrames

\* C12: the capture is released only when the capture thread has ended, so
\* no cap.read() is in flight or still to come once cap.release() has run.
C12_ReleaseAfterThreadEnd == cap = "released" => capPc \in {"done", "dead"}

\* C12 witness: release() was called while a read was still to come, the
\* loop left at its head and the capture was released after it.
C12_Witness ==
    /\ cap = "released"
    /\ capPc = "done"
    /\ ~running
    /\ nframes > 0

\* C13: in every state of camera.py's stream the requested delay lies in
\* [0, delay_sec_max), whatever delay_sec the constructor was given and
\* whatever value set_delay was called with.
C13_DelayInRange == impl = "camera" => (0 <= delay_sec /\ delay_sec < DelaySecMax)

\* C13 for set_delay alone: every value it stores lies in [0, delay_sec_max)
C13_SetDelayInRange ==
    [][(impl = "camera" /\ delay_sec' # delay_sec)
        => (0 <= delay_sec' /\ delay_sec' < DelaySecMax)]_vars

\* the selection step of a cycle that starts after a set_delay has returned
C14_Step ==
    (capPc = "buf" /\ capPc' = "pub" /\ lastSet # Unset)
    => delayed_frame' = Select(buffer', timestamp, lastSet)

\* C14: every selection step that starts after set_delay(v) has returned
\* selects with the clamped value of v of the latest such call, never with
\* an older delay.
C14_DelayTakesEffect == [][C14_Step]_vars

\* C14 witness: the previous cycle published its own capture (it selected
\* with delay 0); set_delay then stored 1 and this cycle's selection has
\* picked a frame older than the one just captured.
C14_Witness ==
    /\ capPc = "pub"
    /\ lastSet = 1
    /\ frame # None
    /\ frame = curFrame - 1
    /\ delayed_frame # None
    /\ delayed_frame # curFrame

\* the timestamp the buffer holds for frame f
FrameTs(buf, f) == buf[CHOOSE i \in 1..Len(buf) : buf[i].f = f].t

\* the selection on the buffer as it stands, for delay d
SelectNow(d) ==
    Select(buffer, IF buffer = <<>> THEN 0 ELSE Last(buffer).t, d)

\* C15: on any buffer a cycle has just appended to and for delays d1 <= d2,
\* the selection for d2, when it yields a frame, yields one whose timestamp
\* is not larger than that of the frame selected for d1.
C15_SelectMonotonic ==
    capPc = "pub" =>
        \A d1, d2 \in 0..(DelaySecMax + 1) :
            (d1 <= d2 /\ SelectNow(d2) # None)
            => /\ SelectNow(d1) # None
               /\ FrameTs(buffer, SelectNow(d2)) <= FrameTs(buffer, SelectNow(d1))

\* C15 witness: a buffer of three entries on which the delays 0, 1 and 2
\* select the newest, the middle and the oldest entry.
C15_Witness ==
    /\ capPc = "pub"
    /\ Len(buffer) = 3
    /\ StrictlyIncreasing(buffer)
    /\ SelectNow(0) = buffer[3].f
    /\ SelectNow(1) = buffer[2].f
    /\ SelectNow(2) = buffer[1].f

\* C16: for a capture that failed to open, start() has raised to its caller
\* and no capture thread exists.
C16_NoThreadOnOpenFailure == cap = "closed" => (capPc = "none" /\ ctlErr)

\* start_recording whose run_async raised leaves no session behind
C17_StartFailureInactive ==
    [][(ctlPc[1] = "start_open" /\ ctlPc'[1] = "idle")
        => (~recording' /\ process' = None)]_vars

\* a write to an encoder whose stdin is broken does not end the capture thread
C17_WriteFailureNotFatal ==
    [][(capPc = "write" /\ FrameToWrite # None /\ process \notin encOpen)
        => capPc' # "dead"]_vars

\* C17: a recording failure is never fatal to capture: a start_recording
\* that cannot launch the encoder leaves recording false and no handle, and
\* a write that finds the encoder's stdin broken leaves the capture thread
\* running.
C17_RecordingFailureNotFatal ==
    C17_StartFailureInactive /\ C17_WriteFailureNotFatal

\* camera.py: the step of a read that yields no frame, and the loop head
C18_CameraStep ==
    /\ (capPc = "read" /\ capPc' = "loop")
       => UNCHANGED <<buffer, frame, pushed, written, recording, process, encOpen>>
    /\ (capPc = "loop" /\ capPc' # "loop")
       => capPc' = IF running THEN "read" ELSE "done"

\* main.py: the step of a read that yields no frame, and the loop head
C18_MainStep ==
    /\ (m.pc = "read" /\ m'.pc = "loop")
       => /\ m'.buffer = m.buffer
          /\ m'.frame = m.frame
          /\ m'.delay_frame = m.delay_frame
          /\ m'.written = m.written
          /\ m'.recording = m.recording
          /\ m'.writer = m.writer
          /\ m'.open = m.open
    /\ (m.pc = "loop" /\ m'.pc # "loop")
       => m'.pc = IF m.running THEN "read" ELSE "done"

\* C18: in both classes a cycle whose read yields no frame changes neither
\* the buffer nor the published frame nor the recording, and goes back to the
\* loop head, which reads again while running is true.
C18_FailedReadChangesNothing == [][C18_CameraStep /\ C18_MainStep]_vars

\* C18 witness: a read is in flight on a stream that has buffered and
\* published a frame and written one to an open encoder; it may fail.
C18_Witness ==
    /\ capPc = "read"
    /\ running
    /\ buffer # <<>>
    /\ frame # None
    /\ recording
    /\ process \in encOpen
    /\ written # {}
    /\ ENABLED ReadFail

\* C19: a stream that start() has opened, with no release() under way, has
\* a capture thread that has not left its loop; in particular a start()
\* after a release() yields a thread that keeps capturing.
C19_RestartRuns == (cap = "open" /\ ctlPc[1] # "rel_join") => capPc # "done"

\* the frames a cycle of main.py's update() has at hand once it has appended
\* its own: the buffer before the trim
C20_Held == Append(m.buffer, [t |-> m.timestamp, f |-> m.cur])

\* the entries of C20_Held whose age is not less than delay_sec
C20_OldEnough == {i \in 1..Len(C20_Held) : m.timestamp - C20_Held[i].t >= m.delay_sec}

\* a cycle of update() that starts with a frame at least delay_sec old in the
\* buffer
C20_Step ==
    (/\ m.pc = "lock"
     /\ m'.pc = "loop"
     /\ m.buffer # <<>>
     /\ m.timestamp - m.buffer[1].t >= m.delay_sec)
    => \E i \in C20_OldEnough :
          /\ m_get_delay_frame' = C20_Held[i].f
          /\ \A j \in C20_OldEnough : C20_Held[j].t <= C20_Held[i].t

\* C20: with delay_sec left alone, a cycle of main.py's update() that holds
\* a frame at least delay_sec old leaves in get_delay_frame() a frame whose
\* age is not less than delay_sec, the youngest of those.
C20_DelayFrameOldEnough == [][C20_Step]_vars

\* at most one thread runs loop() on the stream
C21_OneThread == ~(Alive(capPc) /\ Alive(second.pc))

\* the buffer's entries are in timestamp order
C21_AppendsInOrder ==
    \A i \in 1..(Len(buffer) - 1) : buffer[i].t <= buffer[i + 1].t

\* C21: whatever start() and release() calls are made, at most one capture
\* thread is alive at a time and the buffer's entries are in timestamp order.
C21_SingleWriter == C21_OneThread /\ C21_AppendsInOrder

\* C22: each of the three locks is held exactly while its holder is inside
\* the with block of that lock, from which it can step on and release it; a
\* thread is at one position at a time, so no thread holds a lock while it
\* acquires another and none waits for a lock whose holder cannot move.
C22_LocksHeldInsideSections ==
    /\ (buf_lock = "loop") <=> (capPc = "buf_in")
    /\ (frame_lock = "loop") <=> (capPc = "pub_in")
    /\ (process_lock = "loop") <=> (capPc = "write")
    /\ (buf_lock = "ctl") <=> (ctlPc[1] = "set_in")
    /\ (frame_lock = "ctl") <=> (ctlPc[1] = "get_in")
    /\ (process_lock = "ctl") <=> (ctlPc[1] = "stop_in")
    /\ buf_lock = "loop" => ENABLED k_BufLeave
    /\ frame_lock = "loop" => ENABLED k_PubLeave
    /\ process_lock = "loop" => ENABLED RecWrite
    /\ buf_lock = "ctl" => ENABLED k_SetLeave(1)
    /\ frame_lock = "ctl" => ENABLED k_GetLeave(1)
    /\ process_lock = "ctl" => ENABLED k_StopLeave(1)

\* C22 witness: the capture thread is waiting for buf_lock, which set_delay
\* holds, while a recording is active.
C22_Witness ==
    /\ capPc = "buf"
    /\ buf_lock = "ctl"
    /\ ctlPc[1] = "set_in"
    /\ recording
    /\ process \in encOpen

\* the capture thread keeps stepping and gets a lock that keeps becoming
\* free; a control call that has begun goes on
LockFairSpec ==
    /\ LockSpec
    /\ SF_vars(LockCapNext)
    /\ WF_vars(k_SetLeave(1) \/ k_GetLeave(1) \/ k_StopEnter(1) \/ k_StopLeave(1))

\* a stop_recording waiting for process_lock gets it, and a capture thread
\* waiting for a lock gets it
C22_WaitersProceed ==
    /\ (ctlPc[1] = "stop_lock") ~> (ctlPc[1] = "stop_in")
    /\ (capPc = "buf") ~> (capPc = "buf_in")
    /\ (capPc = "pub") ~> (capPc = "pub_in")
    /\ (capPc = "rec") ~> (capPc # "rec")

\* whenever recording is true there is a process handle
C23_HandleWhileRecording == recording => process # None

\* no stop_recording has raised on a None handle
C23_NoNullDereference == ~ctlErr

\* every open encoder is the one self.process names, the only one a
\* stop_recording can close
C23_NoEncoderLeaked == encOpen \subseteq {process}

\* C23: with two control threads calling start_recording and
\* stop_recording, recording implies a process handle, stop_recording never
\* dereferences a None handle, and no started encoder is left that no
\* stop_recording can close.
C23_TwoControlThreadsSafe ==
    /\ C23_HandleWhileRecording
    /\ C23_NoNullDereference
    /\ C23_NoEncoderLeaked

\* consecutive captures are at most one time unit apart
GapsAtMostOne(seq) == \A i \in 1..(Len(seq) - 1) : seq[i + 1].t - seq[i].t <= 1

\* a selection step after a set_delay, on captures at most one time unit
\* apart that began at least delay_sec ago
C24_SelectStep ==
    (/\ capPc = "buf"
     /\ capPc' = "pub"
     /\ lastSet # Unset
     /\ GapsAtMostOne(pushed')
     /\ timestamp - pushed'[1].t >= delay_sec)
    => /\ delayed_frame' # None
       /\ timestamp - FrameTs(buffer', delayed_frame') >= delay_sec
       /\ timestamp - FrameTs(buffer', delayed_frame') <= DelaySecMax

\* the publish step hands the selected frame to get_frame()
C24_PublishStep ==
    (capPc = "pub" /\ capPc' = "rec") => (frame' = delayed_frame /\ get_frame' = frame')

\* C24: once captures at most one time unit apart have run for the delay a
\* set_delay stored, every cycle selects and publishes a frame that is not
\* None and whose age is >= the delay and <= delay_sec_max.
C24_DelayedViewServed == [][C24_SelectStep /\ C24_PublishStep]_vars

\* C24 witness: after set_delay stored 1, captures one time unit apart have
\* pushed the first frame out of the buffer, and the cycle has published a
\* frame that is one time unit old.
C24_Witness ==
    /\ capPc = "rec"
    /\ lastSet = 1
    /\ delay_sec = 1
    /\ GapsAtMostOne(pushed)
    /\ Len(buffer) < Len(pushed)
    /\ frame # None
    /\ frame = delayed_frame
    /\ timestamp - FrameTs(buffer, frame) = 1

\* C25: the delay VideosWidget keeps and shows in the status bar equals the
\* delay_sec in effect in the CameraStream it owns, after any key presses
\* '1'/'2' and slider moves.
C25_DisplayedDelayInEffect == StatusBarDelay = delay_sec

====
